---- MODULE Spec2Model ----
(***************************************************************************)
(* Model of promremotecli: the conversion of a gathered metric snapshot    *)
(* into remote-write time series (MetricFamiliesToTimeSeries and           *)
(* FlattenTimeSeriesMap), the flag parsers, and the control flow of main.  *)
(*                                                                         *)
(* Two variants of the program are modelled side by side:                  *)
(*   "decompose"  src/unnamed/part_000           (histograms and summaries *)
(*                are expanded into _sum, _count, bucket/quantile series)  *)
(*   "single"     src/cmd/promremotecli/main.go  (one point per metric)    *)
(***************************************************************************)
EXTENDS Integers, Sequences, FiniteSets, Bags, TLC

VARIABLES
    variant,          \* which of the two source files is running
    pc,               \* position of the running program / function under test
    metricFamilies,   \* argument of MetricFamiliesToTimeSeries ([]*dto.MetricFamily)
    tss,              \* map returned by MetricFamiliesToTimeSeries
    flat,             \* slice returned by FlattenTimeSeriesMap
    labelsListFlag,   \* labelList accumulated by -t
    headerListFlag,   \* headerList accumulated by -h
    dpFlag,           \* dp set by -d
    lastCall,         \* the last flag.Value.Set call: receiver before, argument, error
    tsList,           \* promremote.TSList built by main
    written,          \* batches handed to client.WriteTimeSeries, in call order
    writeResult,      \* what client.WriteTimeSeries returned
    stdout,           \* JSON objects encoded to os.Stdout, in order
    exitCode,         \* process exit status once it has terminated
    args              \* the flags of the command line flag.Parse has yet to visit

vars == <<variant, pc, metricFamilies, tss, flat, labelsListFlag, headerListFlag,
          dpFlag, lastCall, tsList, written, writeResult, stdout, exitCode, args>>

Variants == {"decompose", "single"}

\* a nil pointer
Nil == [kind |-> "nil"]

(***************************************************************************)
(* Bounds of the model.                                                    *)
(***************************************************************************)
MaxLabels == 2
MaxBuckets == 2
MaxFamilies == 2
MaxSnapshotMetrics == 3
MaxArgLen == 4
MaxDpArgLen == 5
MaxFlags == 2

(***************************************************************************)
(* Sequence helpers.                                                       *)
(***************************************************************************)
SeqsUpTo(S, n) == UNION {[1..k -> S] : k \in 0..n}

RECURSIVE Flatten(_)
Flatten(ss) == IF ss = <<>> THEN <<>> ELSE Head(ss) \o Flatten(Tail(ss))

RECURSIVE SumSeq(_)
SumSeq(s) == IF s = <<>> THEN 0 ELSE Head(s) + SumSeq(Tail(s))

Max(a, b) == IF a >= b THEN a ELSE b
Min(a, b) == IF a <= b THEN a ELSE b

(***************************************************************************)
(* float64.  A finite value is identified by its shortest decimal digits   *)
(* d (no leading or trailing zero; empty for 0) and the position dp of the *)
(* decimal point: value = 0.d1d2...dn * 10^dp.  This is the decimalSlice   *)
(* that strconv hands to its %e / %f formatters.                           *)
(***************************************************************************)
Fin(neg, d, dp) == [kind |-> "fin", neg |-> neg, d |-> d, dp |-> dp]
PosInf == [kind |-> "inf", neg |-> FALSE]
NegInf == [kind |-> "inf", neg |-> TRUE]
NaN == [kind |-> "nan"]

RECURSIVE NatDigits(_)
NatDigits(n) == IF n < 10 THEN <<n>> ELSE NatDigits(n \div 10) \o <<n % 10>>

RECURSIVE StripTrailingZeros(_)
StripTrailingZeros(d) ==
    IF d # <<>> /\ d[Len(d)] = 0 THEN StripTrailingZeros(SubSeq(d, 1, Len(d) - 1)) ELSE d

\* float64(n) for an unsigned integer n (exact below 2^53).
Float64OfUint(n) ==
    IF n = 0 THEN Fin(FALSE, <<>>, 0)
    ELSE Fin(FALSE, StripTrailingZeros(NatDigits(n)), Len(NatDigits(n)))

DigitChar == <<"0", "1", "2", "3", "4", "5", "6", "7", "8", "9">>

RECURSIVE DigitString(_)
DigitString(d) == IF d = <<>> THEN "" ELSE DigitChar[Head(d) + 1] \o DigitString(Tail(d))

RECURSIVE Zeros(_)
Zeros(n) == IF n <= 0 THEN "" ELSE "0" \o Zeros(n - 1)

\* strconv %e with the shortest precision: d.ddde+XX
FmtE(f) ==
    LET nd == Len(f.d)
        prec == nd - 1
        first == IF nd = 0 THEN "0" ELSE DigitChar[f.d[1] + 1]
        frac == IF prec > 0 THEN "." \o DigitString(SubSeq(f.d, 2, nd)) ELSE ""
        exp == IF nd = 0 THEN 0 ELSE f.dp - 1
        esign == IF exp < 0 THEN "-" ELSE "+"
        eabs == IF exp < 0 THEN 0 - exp ELSE exp
        edigits == IF eabs < 10 THEN "0" \o DigitString(NatDigits(eabs))
                   ELSE DigitString(NatDigits(eabs))
    IN  (IF f.neg THEN "-" ELSE "") \o first \o frac \o "e" \o esign \o edigits

\* strconv %f with the shortest precision: max(nd - dp, 0) fraction digits
FmtF(f) ==
    LET nd == Len(f.d)
        prec == Max(nd - f.dp, 0)
        int == IF f.dp > 0
               THEN DigitString(SubSeq(f.d, 1, Min(nd, f.dp))) \o Zeros(f.dp - nd)
               ELSE "0"
        fracDigit(i) == LET j == f.dp + i IN IF j >= 1 /\ j <= nd THEN f.d[j] ELSE 0
        frac == IF prec > 0 THEN "." \o DigitString([i \in 1..prec |-> fracDigit(i)]) ELSE ""
    IN  (IF f.neg THEN "-" ELSE "") \o int \o frac

\* fmt.Sprintf("%g", f)
FormatG(f) ==
    IF f.kind = "nan" THEN "NaN"
    ELSE IF f.kind = "inf" THEN (IF f.neg THEN "-Inf" ELSE "+Inf")
    ELSE LET exp == f.dp - 1
         IN  IF exp < -4 \/ exp >= 6 THEN FmtE(f) ELSE FmtF(f)

(***************************************************************************)
(* int64 and time.Time.  An int64 is its 8 two's-complement bytes, least   *)
(* significant first, so that multiplication wraps as Go's does.  An       *)
(* instant (time.Time) is the count of nanoseconds since the Unix epoch as *)
(* a 12-byte two's-complement integer: time.Time keeps 64-bit seconds plus *)
(* nanoseconds, so every (sec, nsec) pair of int64 is a distinct instant.  *)
(***************************************************************************)
Int64Bytes == 8
InstantBytes == 12
Millisecond == 1000000
Second == 1000000000

RECURSIVE NatBytes(_, _)
NatBytes(n, w) == IF w = 0 THEN <<>> ELSE <<n % 256>> \o NatBytes(n \div 256, w - 1)

\* two's complement of a (small) integer n on w bytes
IntBytes(n, w) ==
    IF n >= 0 THEN NatBytes(n, w)
    ELSE LET m == NatBytes((0 - n) - 1, w) IN [i \in 1..w |-> 255 - m[i]]

Int64Of(n) == IntBytes(n, Int64Bytes)

IsNegative(a) == a[Len(a)] >= 128

SignExtend(a, w) ==
    [i \in 1..w |-> IF i <= Len(a) THEN a[i] ELSE IF IsNegative(a) THEN 255 ELSE 0]

RECURSIVE MulFrom(_, _, _, _)
MulFrom(a, m, k, carry) ==
    IF k > Len(a) THEN <<>>
    ELSE LET s == a[k] * m + carry
         IN  <<s % 256>> \o MulFrom(a, m, k + 1, s \div 256)

\* a * m on the bytes of a, the high bytes discarded, for 0 <= m < 2^23
MulTrunc(a, m) == MulFrom(a, m, 1, 0)

RECURSIVE AddFrom(_, _, _, _, _)
AddFrom(a, b, n, k, carry) ==
    IF k > n THEN <<>>
    ELSE LET s == a[k] + b[k] + carry
         IN  <<s % 256>> \o AddFrom(a, b, n, k + 1, s \div 256)

AddTrunc(a, b, n) == AddFrom(a, b, n, 1, 0)

\* the Go expression x * int64(m) on an int64 x
Mul64(x, m) == MulTrunc(x, m)

\* time.Unix(sec, nsec)
TimeUnix(sec, nsec) ==
    AddTrunc(MulTrunc(MulTrunc(SignExtend(sec, InstantBytes), Second \div Millisecond),
                      Millisecond),
             SignExtend(nsec, InstantBytes), InstantBytes)

(***************************************************************************)
(* dto.MetricFamily, dto.Metric and promremote.TimeSeries.                 *)
(***************************************************************************)
LabelPair(n, v) == [Name |-> n, Value |-> v]

Metric(label, ms, counter, gauge, histogram, summary) ==
    [Label |-> label, TimestampMs |-> ms, Counter |-> counter, Gauge |-> gauge,
     Histogram |-> histogram, Summary |-> summary]

MetricFamily(name, metric) == [Name |-> name, Metric |-> metric]

TimeSeries(labels, timestamp, value) ==
    [Labels |-> labels, Datapoint |-> [Timestamp |-> timestamp, Value |-> value]]

NameLabel == "__name__"

(***************************************************************************)
(* MetricFamiliesToTimeSeries, variant "decompose".                        *)
(***************************************************************************)
\* labels := ...; for _, labelPair := range metric.Label { labels = append(...) }
CopyLabels(metric) ==
    [i \in 1..Len(metric.Label) |->
        LabelPair(metric.Label[i].Name, metric.Label[i].Value)]

\* time.Unix(0, metric.GetTimestampMs()*int64(time.Millisecond))
MetricTimestamp(metric) ==
    TimeUnix(Int64Of(0), Mul64(metric.TimestampMs, Millisecond))

CounterSeriesNoName(metricName, labels, timestamp, counter) ==
    <<TimeSeries(labels, timestamp, counter.Value)>>

\* case metric.GetCounter() != nil
CounterSeries(metricName, labels, timestamp, counter) ==
    <<TimeSeries(Append(labels, LabelPair(NameLabel, metricName)), timestamp,
                 counter.Value)>>

\* case metric.GetGauge() != nil
GaugeSeries(metricName, labels, timestamp, gauge) ==
    <<TimeSeries(Append(labels, LabelPair(NameLabel, metricName)), timestamp,
                 gauge.Value)>>

SumSeries(metricName, labels, timestamp, sampleSum) ==
    TimeSeries(Append(labels, LabelPair(NameLabel, metricName \o "_sum")), timestamp,
               sampleSum)

CountSeries(metricName, labels, timestamp, sampleCount) ==
    TimeSeries(Append(labels, LabelPair(NameLabel, metricName \o "_count")), timestamp,
               Float64OfUint(sampleCount))

BucketSeries(metricName, labels, timestamp, bucket) ==
    TimeSeries(labels \o <<LabelPair("le", FormatG(bucket.UpperBound)),
                           LabelPair(NameLabel, metricName \o "_bucket")>>,
               timestamp, Float64OfUint(bucket.CumulativeCount))

QuantileSeries(metricName, labels, timestamp, quantile) ==
    TimeSeries(labels \o <<LabelPair("quantile", FormatG(quantile.Quantile)),
                           LabelPair(NameLabel, metricName)>>,
               timestamp, quantile.Value)

HistogramSeriesCountFirst(metricName, labels, timestamp, histogram) ==
    <<CountSeries(metricName, labels, timestamp, histogram.SampleCount),
      SumSeries(metricName, labels, timestamp, histogram.SampleSum)>>
    \o [i \in 1..Len(histogram.Bucket) |->
            BucketSeries(metricName, labels, timestamp, histogram.Bucket[i])]

\* case metric.GetHistogram() != nil
HistogramSeries(metricName, labels, timestamp, histogram) ==
    <<SumSeries(metricName, labels, timestamp, histogram.SampleSum),
      CountSeries(metricName, labels, timestamp, histogram.SampleCount)>>
    \o [i \in 1..Len(histogram.Bucket) |->
            BucketSeries(metricName, labels, timestamp, histogram.Bucket[i])]

SummarySeriesSuffixed(metricName, labels, timestamp, summary) ==
    <<SumSeries(metricName, labels, timestamp, summary.SampleSum),
      CountSeries(metricName, labels, timestamp, summary.SampleCount)>>
    \o [i \in 1..Len(summary.Quantile) |->
            QuantileSeries(metricName \o "_quantile", labels, timestamp,
                           summary.Quantile[i])]

\* case metric.GetSummary() != nil
SummarySeries(metricName, labels, timestamp, summary) ==
    <<SumSeries(metricName, labels, timestamp, summary.SampleSum),
      CountSeries(metricName, labels, timestamp, summary.SampleCount)>>
    \o [i \in 1..Len(summary.Quantile) |->
            QuantileSeries(metricName, labels, timestamp, summary.Quantile[i])]

\* the body of the loop over metricFamily.Metric: the series one metric appends
MetricSeriesDecompose(metricName, metric) ==
    LET labels == CopyLabels(metric)
        timestamp == MetricTimestamp(metric)
    IN  IF metric.Counter # Nil
            THEN CounterSeries(metricName, labels, timestamp, metric.Counter)
        ELSE IF metric.Gauge # Nil
            THEN GaugeSeries(metricName, labels, timestamp, metric.Gauge)
        ELSE IF metric.Histogram # Nil
            THEN HistogramSeries(metricName, labels, timestamp, metric.Histogram)
        ELSE IF metric.Summary # Nil
            THEN SummarySeries(metricName, labels, timestamp, metric.Summary)
        ELSE <<>>

(***************************************************************************)
(* MetricFamiliesToTimeSeries, variant "single".                           *)
(***************************************************************************)
\* value := 0.0; switch { ... }
MetricValueSingleCount(metric) ==
    IF metric.Counter # Nil THEN metric.Counter.Value
    ELSE IF metric.Gauge # Nil THEN metric.Gauge.Value
    ELSE IF metric.Histogram # Nil THEN Float64OfUint(metric.Histogram.SampleCount)
    ELSE IF metric.Summary # Nil THEN Float64OfUint(metric.Summary.SampleCount)
    ELSE Fin(FALSE, <<>>, 0)

MetricValueSingle(metric) ==
    IF metric.Counter # Nil THEN metric.Counter.Value
    ELSE IF metric.Gauge # Nil THEN metric.Gauge.Value
    ELSE IF metric.Histogram # Nil THEN metric.Histogram.SampleSum
    ELSE IF metric.Summary # Nil THEN metric.Summary.SampleSum
    ELSE Fin(FALSE, <<>>, 0)

MetricSeriesSingle(metricName, metric) ==
    <<TimeSeries(Append(CopyLabels(metric), LabelPair(NameLabel, metricName)),
                 MetricTimestamp(metric), MetricValueSingle(metric))>>

MetricSeries(v, metricName, metric) ==
    IF v = "decompose" THEN MetricSeriesDecompose(metricName, metric)
    ELSE MetricSeriesSingle(metricName, metric)

\* the loop over metricFamily.Metric: series of one family
FamilySeries(v, metricFamily) ==
    Flatten([i \in 1..Len(metricFamily.Metric) |->
                MetricSeries(v, metricFamily.Name, metricFamily.Metric[i])])

MapSet(m, k, x) == [n \in (DOMAIN m) \cup {k} |-> IF n = k THEN x ELSE m[n]]

EmptyMap == [n \in {} |-> <<>>]

RECURSIVE ConvertFromFirstWins(_, _, _)
ConvertFromFirstWins(v, families, result) ==
    IF families = <<>> THEN result
    ELSE ConvertFromFirstWins(v, Tail(families),
            IF Head(families).Name \in DOMAIN result THEN result
            ELSE MapSet(result, Head(families).Name, FamilySeries(v, Head(families))))

RECURSIVE ConvertFrom(_, _, _)
ConvertFrom(v, families, result) ==
    IF families = <<>> THEN result
    ELSE ConvertFrom(v, Tail(families),
                     MapSet(result, Head(families).Name, FamilySeries(v, Head(families))))

MetricFamiliesToTimeSeries(v, families) == ConvertFrom(v, families, EmptyMap)

(***************************************************************************)
(* FlattenTimeSeriesMap.  Go ranges over a map in an unspecified order:    *)
(* order is the order in which this call visits the keys.                  *)
(***************************************************************************)
KeyOrders(m) ==
    {o \in [1..Cardinality(DOMAIN m) -> DOMAIN m] :
        \A i, j \in DOMAIN o : i # j => o[i] # o[j]}

FlattenTimeSeriesMapDropLast(timeSeriesMap, order) ==
    Flatten([i \in 1..Len(order) |->
        LET s == timeSeriesMap[order[i]]
        IN  IF Len(s) > 1 THEN SubSeq(s, 1, Len(s) - 1) ELSE s])

FlattenTimeSeriesMap(timeSeriesMap, order) ==
    Flatten([i \in 1..Len(order) |-> timeSeriesMap[order[i]]])

(***************************************************************************)
(* Inputs of the conversion: the snapshots the function is applied to.     *)
(***************************************************************************)
F0 == Fin(FALSE, <<>>, 0)            \* 0
F3 == Fin(FALSE, <<3>>, 1)           \* 3
FHalf == Fin(FALSE, <<5>>, 0)        \* 0.5
F500 == Fin(FALSE, <<5>>, 3)         \* 500
F6000 == Fin(FALSE, <<6>>, 4)        \* 6000
FMillion == Fin(FALSE, <<1>>, 7)     \* 1e+06
FTiny == Fin(FALSE, <<2, 5>>, -4)    \* 2.5e-05
FNegQuarter == Fin(TRUE, <<2, 5>>, 0) \* -0.25
F99 == Fin(FALSE, <<9, 9>>, 0)       \* 0.99

LabelPool ==
    {LabelPair("a", "1"), LabelPair(NameLabel, "x"), LabelPair("le", "1"),
     LabelPair("quantile", "0.5")}

LabelSeqs == SeqsUpTo(LabelPool, MaxLabels)

Bucket(ub, n) == [UpperBound |-> ub, CumulativeCount |-> n]
Quantile(q, x) == [Quantile |-> q, Value |-> x]

BucketPool == {Bucket(F500, 1), Bucket(FMillion, 2), Bucket(FTiny, 0), Bucket(PosInf, 3)}
QuantilePool == {Quantile(FHalf, F500), Quantile(F99, FNegQuarter)}

Counters == {[Value |-> x] : x \in {F0, F3, NaN}}
Gauges == {[Value |-> x] : x \in {FNegQuarter, PosInf}}
Histograms ==
    {[SampleSum |-> F6000, SampleCount |-> 3, Bucket |-> b] :
        b \in SeqsUpTo(BucketPool, MaxBuckets)}
Summaries ==
    {[SampleSum |-> FHalf, SampleCount |-> 20, Quantile |-> q] :
        q \in SeqsUpTo(QuantilePool, MaxBuckets)}

\* which of the metric's payload fields is set: one of the four, or none
\* (an Untyped metric)
Payloads ==
    {[Counter |-> c, Gauge |-> Nil, Histogram |-> Nil, Summary |-> Nil] : c \in Counters}
    \cup {[Counter |-> Nil, Gauge |-> g, Histogram |-> Nil, Summary |-> Nil] : g \in Gauges}
    \cup {[Counter |-> Nil, Gauge |-> Nil, Histogram |-> h, Summary |-> Nil] : h \in Histograms}
    \cup {[Counter |-> Nil, Gauge |-> Nil, Histogram |-> Nil, Summary |-> s] : s \in Summaries}
    \cup {[Counter |-> Nil, Gauge |-> Nil, Histogram |-> Nil, Summary |-> Nil]}

WithPayload(label, ms, p) ==
    Metric(label, ms, p.Counter, p.Gauge, p.Histogram, p.Summary)

\* timestampMillis values: 0, 1, -1, a present-day time, the largest value whose
\* product with 1e6 fits an int64 (9223372036854) and its successor, their
\* negatives, and the extreme int64 values
TsNow == <<0, 104, 229, 207, 139, 1, 0, 0>>  \* 1700000000000
TsFits == <<246, 90, 208, 123, 99, 8, 0, 0>>  \* 9223372036854
TsOver == <<247, 90, 208, 123, 99, 8, 0, 0>>  \* 9223372036855
TsNegFits == <<10, 165, 47, 132, 156, 247, 255, 255>>  \* -9223372036854
TsNegOver == <<8, 165, 47, 132, 156, 247, 255, 255>>  \* -9223372036856
TsMax == <<255, 255, 255, 255, 255, 255, 255, 127>>   \* 2^63 - 1
TsMin == <<0, 0, 0, 0, 0, 0, 0, 128>>                 \* -2^63

Timestamps ==
    {Int64Of(0), Int64Of(1), Int64Of(-1), TsNow, TsFits, TsOver, TsNegFits, TsNegOver,
     TsMax, TsMin}

\* one payload of each kind
PlainPayloads ==
    {p \in Payloads :
        /\ p.Counter \in {Nil, [Value |-> F3]}
        /\ p.Gauge \in {Nil, [Value |-> FNegQuarter]}
        /\ p.Histogram # Nil =>
            Len(p.Histogram.Bucket) = 1 /\ p.Histogram.Bucket[1].UpperBound = PosInf
        /\ p.Summary # Nil =>
            Len(p.Summary.Quantile) = 1 /\ p.Summary.Quantile[1].Quantile = FHalf}

\* one metric: every label sequence and every timestamp with each kind of
\* payload, and every payload
RichMetrics ==
    {WithPayload(l, Int64Of(0), p) : l \in LabelSeqs, p \in PlainPayloads}
    \cup {WithPayload(<<LabelPair("a", "1")>>, ms, p) : ms \in Timestamps, p \in PlainPayloads}
    \cup {WithPayload(<<LabelPair("a", "1")>>, TsNow, p) : p \in Payloads}

\* the metrics of the snapshots with several metrics and families
PlainMetrics ==
    {WithPayload(<<LabelPair("a", "1")>>, TsNow, p) :
        p \in {q \in PlainPayloads : q.Gauge = Nil /\ q.Summary = Nil}}

FamilyNames == {"f", "g"}

\* the sequences of at most n families that hold at most budget metrics together
RECURSIVE FamilySeqs(_, _)
FamilySeqs(n, budget) ==
    {<<>>} \cup
    (IF n = 0 THEN {}
     ELSE UNION {
            {<<MetricFamily(name, ms)>> \o rest : rest \in FamilySeqs(n - 1, budget - Len(ms))} :
                name \in FamilyNames, ms \in SeqsUpTo(PlainMetrics, budget)})

Snapshots ==
    {<<MetricFamily("f", <<m>>)>> : m \in RichMetrics}
    \cup FamilySeqs(MaxFamilies, MaxSnapshotMetrics)

(***************************************************************************)
(* State left alone by a specification that does not use it.               *)
(***************************************************************************)
\* time.Time{}: January 1, year 1, 62135596800 s before the Unix epoch
ZeroTime == <<0, 0, 26, 61, 235, 3, 178, 161, 252, 255, 255, 255>>

\* the zero value of promremote.Datapoint
NoDatapoint == [Timestamp |-> ZeroTime, Value |-> F0]
NoCall == [fn |-> "none"]
NotExited == -1
NoResult == [called |-> FALSE]

(***************************************************************************)
(* SpecConvert: MetricFamiliesToTimeSeries, then FlattenTimeSeriesMap,     *)
(* applied to each snapshot.                                               *)
(***************************************************************************)
InitConvert ==
    /\ variant \in Variants
    /\ pc = "call"
    /\ metricFamilies \in Snapshots
    /\ tss = EmptyMap
    /\ flat = <<>>
    /\ labelsListFlag = <<>>
    /\ headerListFlag = <<>>
    /\ dpFlag = NoDatapoint
    /\ lastCall = NoCall
    /\ tsList = <<>>
    /\ written = <<>>
    /\ writeResult = NoResult
    /\ stdout = <<>>
    /\ exitCode = NotExited
    /\ args = <<>>

Convert ==
    /\ pc = "call"
    /\ tss' = MetricFamiliesToTimeSeries(variant, metricFamilies)
    /\ pc' = "converted"
    /\ UNCHANGED <<variant, metricFamilies, flat, labelsListFlag, headerListFlag, dpFlag,
                   lastCall, tsList, written, writeResult, stdout, exitCode, args>>

FlattenCall ==
    /\ pc = "converted"
    /\ \E order \in KeyOrders(tss) : flat' = FlattenTimeSeriesMap(tss, order)
    /\ pc' = "flattened"
    /\ UNCHANGED <<variant, metricFamilies, tss, labelsListFlag, headerListFlag, dpFlag,
                   lastCall, tsList, written, writeResult, stdout, exitCode, args>>

NextConvert == Convert \/ FlattenCall

SpecConvert == InitConvert /\ [][NextConvert]_vars

(***************************************************************************)
(* Strings of the flag parsers: sequences of one-character strings.        *)
(***************************************************************************)
RECURSIVE SplitFrom(_, _, _)
SplitFrom(s, sep, cur) ==
    IF s = <<>> THEN <<cur>>
    ELSE IF Head(s) = sep THEN <<cur>> \o SplitFrom(Tail(s), sep, <<>>)
    ELSE SplitFrom(Tail(s), sep, Append(cur, Head(s)))

\* strings.Split(s, sep) for a one-character separator
Split(s, sep) == SplitFrom(s, sep, <<>>)

\* strings.Index(s, c) for a one-character c: 0-based, -1 when absent
Index(s, c) ==
    IF \E i \in DOMAIN s : s[i] = c
    THEN (CHOOSE i \in DOMAIN s : s[i] = c /\ \A k \in 1..(i - 1) : s[k] # c) - 1
    ELSE -1

IsSpace(c) == c \in {" ", "\t", "\n", "\r"}

RECURSIVE TrimLeft(_)
TrimLeft(s) == IF s # <<>> /\ IsSpace(Head(s)) THEN TrimLeft(Tail(s)) ELSE s

RECURSIVE TrimRight(_)
TrimRight(s) ==
    IF s # <<>> /\ IsSpace(s[Len(s)]) THEN TrimRight(SubSeq(s, 1, Len(s) - 1)) ELSE s

\* strings.TrimSpace
TrimSpace(s) == TrimRight(TrimLeft(s))

UpperChars == <<"A", "B", "C", "D", "E", "F", "G", "H", "I", "J", "K", "L", "M",
                "N", "O", "P", "Q", "R", "S", "T", "U", "V", "W", "X", "Y", "Z">>
LowerChars == <<"a", "b", "c", "d", "e", "f", "g", "h", "i", "j", "k", "l", "m",
                "n", "o", "p", "q", "r", "s", "t", "u", "v", "w", "x", "y", "z">>

ToLowerChar(c) ==
    IF \E i \in DOMAIN UpperChars : UpperChars[i] = c
    THEN LowerChars[CHOOSE i \in DOMAIN UpperChars : UpperChars[i] = c]
    ELSE c

\* strings.ToLower
ToLower(s) == [i \in DOMAIN s |-> ToLowerChar(s[i])]

Digits == {"0", "1", "2", "3", "4", "5", "6", "7", "8", "9"}

DigitOf(c) == CHOOSE n \in 0..9 : DigitChar[n + 1] = c

RECURSIVE DecimalValue(_)
DecimalValue(s) ==
    IF s = <<>> THEN 0
    ELSE 10 * DecimalValue(SubSeq(s, 1, Len(s) - 1)) + DigitOf(s[Len(s)])

\* strconv.Atoi: an optional sign and one or more decimal digits
Atoi(s) ==
    LET signed == s # <<>> /\ Head(s) \in {"+", "-"}
        body == IF signed THEN Tail(s) ELSE s
    IN  IF body = <<>> \/ \E i \in DOMAIN body : body[i] \notin Digits
        THEN [err |-> TRUE, i |-> 0]
        ELSE [err |-> FALSE,
              i |-> IF signed /\ Head(s) = "-" THEN 0 - DecimalValue(body)
                    ELSE DecimalValue(body)]

RECURSIVE StripLeadingZeros(_)
StripLeadingZeros(d) == IF d # <<>> /\ Head(d) = 0 THEN StripLeadingZeros(Tail(d)) ELSE d

\* strconv.ParseFloat(s, 64) on decimal notation without exponent: an optional
\* sign, digits with at most one point, at least one digit.  (The forms with
\* an exponent, a 0x prefix, inf and nan need characters outside the modelled
\* alphabet.)
ParseFloat(s) ==
    LET signed == s # <<>> /\ Head(s) \in {"+", "-"}
        body == IF signed THEN Tail(s) ELSE s
        parts == Split(body, ".")
        int == parts[1]
        frac == IF Len(parts) = 2 THEN parts[2] ELSE <<>>
        all == int \o frac
        digits == [i \in DOMAIN all |-> DigitOf(all[i])]
        lead == StripLeadingZeros(digits)
        d == StripTrailingZeros(lead)
    IN  IF Len(parts) > 2 \/ all = <<>> \/ \E i \in DOMAIN all : all[i] \notin Digits
        THEN [err |-> TRUE, f |-> F0]
        ELSE [err |-> FALSE,
              f |-> IF d = <<>> THEN Fin(signed /\ Head(s) = "-", <<>>, 0)
                    ELSE Fin(signed /\ Head(s) = "-", d,
                             Len(int) - (Len(digits) - Len(lead)))]

(***************************************************************************)
(* The flag.Value implementations.  Each returns the error and the         *)
(* receiver as the call leaves it.                                         *)
(***************************************************************************)
\* func (t *labelList) Set(value string) error
LabelListSet(t, value) ==
    LET labelPair == Split(value, ":")
    IN  IF Len(labelPair) # 2 THEN [err |-> TRUE, t |-> t]
        ELSE [err |-> FALSE, t |-> Append(t, LabelPair(labelPair[1], labelPair[2]))]

\* func (h *headerList) Set(value string) error
HeaderListSet(h, value) ==
    LET firstSplit == Index(value, ":")
    IN  IF firstSplit = -1 THEN [err |-> TRUE, h |-> h]
        ELSE [err |-> FALSE,
              h |-> Append(h, [name |-> TrimSpace(SubSeq(value, 1, firstSplit)),
                               value |-> TrimSpace(SubSeq(value, firstSplit + 2, Len(value)))])]

DpSetEager(d, value, now) ==
    LET dp == Split(value, ",")
    IN  IF Len(dp) # 2 THEN [err |-> TRUE, d |-> d]
        ELSE LET isNow == ToLower(dp[1]) = <<"n", "o", "w">>
                 i == Atoi(dp[1])
                 ts == IF isNow THEN now ELSE TimeUnix(Int64Of(i.i), Int64Of(0))
                 val == ParseFloat(dp[2])
             IN  IF ~isNow /\ i.err THEN [err |-> TRUE, d |-> d]
                 ELSE IF val.err THEN [err |-> TRUE, d |-> [d EXCEPT !.Timestamp = ts]]
                 ELSE [err |-> FALSE, d |-> [Timestamp |-> ts, Value |-> val.f]]

\* func (d *dp) Set(value string) error; now is what time.Now() returns
DpSet(d, value, now) ==
    LET dp == Split(value, ",")
    IN  IF Len(dp) # 2 THEN [err |-> TRUE, d |-> d]
        ELSE LET isNow == ToLower(dp[1]) = <<"n", "o", "w">>
                 i == Atoi(dp[1])
                 ts == IF isNow THEN now ELSE TimeUnix(Int64Of(i.i), Int64Of(0))
                 val == ParseFloat(dp[2])
             IN  IF ~isNow /\ i.err THEN [err |-> TRUE, d |-> d]
                 ELSE IF val.err THEN [err |-> TRUE, d |-> d]
                 ELSE [err |-> FALSE, d |-> [Timestamp |-> ts, Value |-> val.f]]

(***************************************************************************)
(* SpecFlags: one Set call on a receiver that is fresh or already holds    *)
(* what an earlier flag of the command line left in it.                    *)
(***************************************************************************)
ArgChars == {"a", ":", " "}
DpChars == {"n", "O", "w", ",", "1", ".", "-"}

\* what time.Now() may return: 1700000000 s after the epoch, and 1 ns later
NowSeconds == 1700000000
Clock == {TimeUnix(Int64Of(NowSeconds), Int64Of(0)), TimeUnix(Int64Of(NowSeconds), Int64Of(1))}

EarlierLabels == <<LabelPair(<<"a">>, <<"a">>)>>
EarlierHeaders == <<[name |-> <<"a">>, value |-> <<>>]>>
EarlierDatapoint == [Timestamp |-> TimeUnix(Int64Of(1), Int64Of(0)), Value |-> F3]

\* (the parsers are the same text in both source files)
InitFlags ==
    /\ variant = "single"
    /\ pc = "flags"
    /\ metricFamilies = <<>>
    /\ tss = EmptyMap
    /\ flat = <<>>
    /\ \/ /\ labelsListFlag = <<>>
          /\ headerListFlag = <<>>
          /\ dpFlag = NoDatapoint
       \/ /\ labelsListFlag = EarlierLabels
          /\ headerListFlag = EarlierHeaders
          /\ dpFlag = EarlierDatapoint
    /\ lastCall = NoCall
    /\ tsList = <<>>
    /\ written = <<>>
    /\ writeResult = NoResult
    /\ stdout = <<>>
    /\ exitCode = NotExited
    /\ args = <<>>

LabelFlag(value) ==
    LET r == LabelListSet(labelsListFlag, value)
    IN  /\ labelsListFlag' = r.t
        /\ lastCall' = [fn |-> "labelList.Set", arg |-> value, err |-> r.err,
                        before |-> labelsListFlag]
        /\ UNCHANGED <<headerListFlag, dpFlag>>

HeaderFlag(value) ==
    LET r == HeaderListSet(headerListFlag, value)
    IN  /\ headerListFlag' = r.h
        /\ lastCall' = [fn |-> "headerList.Set", arg |-> value, err |-> r.err,
                        before |-> headerListFlag]
        /\ UNCHANGED <<labelsListFlag, dpFlag>>

DpFlag(value, now) ==
    LET r == DpSet(dpFlag, value, now)
    IN  /\ dpFlag' = r.d
        /\ lastCall' = [fn |-> "dp.Set", arg |-> value, err |-> r.err,
                        before |-> dpFlag, now |-> now]
        /\ UNCHANGED <<labelsListFlag, headerListFlag>>

SetLabel ==
    /\ pc = "flags"
    /\ \E value \in SeqsUpTo(ArgChars, MaxArgLen) : LabelFlag(value)
    /\ pc' = "set"
    /\ UNCHANGED <<variant, metricFamilies, tss, flat, tsList, written, writeResult,
                   stdout, exitCode, args>>

SetHeader ==
    /\ pc = "flags"
    /\ \E value \in SeqsUpTo(ArgChars, MaxArgLen) : HeaderFlag(value)
    /\ pc' = "set"
    /\ UNCHANGED <<variant, metricFamilies, tss, flat, tsList, written, writeResult,
                   stdout, exitCode, args>>

SetDp ==
    /\ pc = "flags"
    /\ \E value \in SeqsUpTo(DpChars, MaxDpArgLen), now \in Clock : DpFlag(value, now)
    /\ pc' = "set"
    /\ UNCHANGED <<variant, metricFamilies, tss, flat, tsList, written, writeResult,
                   stdout, exitCode, args>>

NextFlags == SetLabel \/ SetHeader \/ SetDp

SpecFlags == InitFlags /\ [][NextFlags]_vars

(***************************************************************************)
(* main.  The command line is a sequence of -t, -h and -d flags.           *)
(***************************************************************************)
Chars(str) ==
    CASE str = "a:1" -> <<"a", ":", "1">>
      [] str = "a" -> <<"a">>
      [] str = "A: b" -> <<"A", ":", " ", "b">>
      [] str = "now,1" -> <<"n", "o", "w", ",", "1">>
      [] str = "1,1.1" -> <<"1", ",", "1", ".", "1">>
      [] str = "1" -> <<"1">>

CommandLineFlags ==
    {[flag |-> "t", value |-> Chars("a:1")], [flag |-> "t", value |-> Chars("a")],
     [flag |-> "h", value |-> Chars("A: b")], [flag |-> "h", value |-> Chars("a")],
     [flag |-> "d", value |-> Chars("now,1")], [flag |-> "d", value |-> Chars("1,1.1")],
     [flag |-> "d", value |-> Chars("1")]}

\* prometheus.LinearBuckets(0, 500, 20)
BucketStart == 0
BucketWidth == 500
BucketCount == 20

\* time.Sleep(1 * time.Second), (2 * ...), (3 * ...): a sleep lasts at least
\* its duration; dur.Milliseconds() is that or a millisecond more
SleepMillis == <<1000, 2000, 3000>>
Observations == {[i \in 1..3 |-> SleepMillis[i] + over[i]] : over \in [1..3 -> {0, 1}]}

CounterMetric(names, values, n) ==
    Metric([i \in 1..3 |-> LabelPair(names[i], values[i])], Int64Of(0),
           [Value |-> Float64OfUint(n)], Nil, Nil, Nil)

\* cv / scv after their Inc() calls, as Gather writes them: label pairs sorted
\* by name, metrics sorted by label values
SomeMetricName ==
    MetricFamily("some_metric_name",
        <<CounterMetric(<<"first", "second", "third">>, <<"fast", "second", "third">>, 1),
          CounterMetric(<<"first", "second", "third">>, <<"first", "second", "third">>, 2)>>)

SecondMetricName ==
    MetricFamily("second_metric_name",
        <<CounterMetric(<<"one", "three", "two">>, <<"fast", "three", "two">>, 1),
          CounterMetric(<<"one", "three", "two">>, <<"one", "three", "two">>, 2)>>)

\* requestProcessingTimeHistogramMs after its three Observe() calls
RequestProcessingTimeHistogramMs(obs) ==
    MetricFamily("request_processing_time_histogram_ms",
        <<Metric(<<>>, Int64Of(0), Nil, Nil,
                 [SampleSum |-> Float64OfUint(obs[1] + obs[2] + obs[3]),
                  SampleCount |-> 3,
                  Bucket |-> [b \in 1..BucketCount |->
                      Bucket(Float64OfUint(BucketStart + BucketWidth * (b - 1)),
                             Cardinality({i \in 1..3 :
                                 obs[i] <= BucketStart + BucketWidth * (b - 1)}))]],
                 Nil)>>)

\* what prometheus.ToTransactionalGatherer(reg).Gather() returns: the
\* registered families, sorted by name
Gathered(v, obs) ==
    IF v = "decompose"
    THEN <<RequestProcessingTimeHistogramMs(obs), SecondMetricName, SomeMetricName>>
    ELSE <<SecondMetricName, SomeMetricName>>

\* the outcomes of client.WriteTimeSeries
WriteResults ==
    {[called |-> TRUE, err |-> FALSE, error |-> "", statusCode |-> 200],
     [called |-> TRUE, err |-> TRUE, error |-> "expected HTTP 200 status code: actual=400",
      statusCode |-> 400],
     [called |-> TRUE, err |-> TRUE, error |-> "connection refused", statusCode |-> 0]}

InitMain ==
    /\ variant \in Variants
    /\ pc = "parse"
    /\ args \in SeqsUpTo(CommandLineFlags, MaxFlags)
    /\ metricFamilies = <<>>
    /\ tss = EmptyMap
    /\ flat = <<>>
    /\ labelsListFlag = <<>>
    /\ headerListFlag = <<>>
    /\ dpFlag = NoDatapoint
    /\ lastCall = NoCall
    /\ tsList = <<>>
    /\ written = <<>>
    /\ writeResult = NoResult
    /\ stdout = <<>>
    /\ exitCode = NotExited

\* flag.Parse(): the next flag's Set; an error ends the process with status 2
\* (flag.CommandLine is flag.ExitOnError)
FlagParse ==
    /\ pc = "parse"
    /\ args # <<>>
    /\ LET a == Head(args) IN
        IF a.flag = "t" THEN LabelFlag(a.value)
        ELSE IF a.flag = "h" THEN HeaderFlag(a.value)
        ELSE \E now \in Clock : DpFlag(a.value, now)
    /\ args' = Tail(args)
    /\ IF lastCall'.err
       THEN pc' = "exited" /\ exitCode' = 2
       ELSE pc' = "parse" /\ exitCode' = exitCode
    /\ UNCHANGED <<variant, metricFamilies, tss, flat, tsList, written, writeResult, stdout>>

\* tsList := promremote.TSList{{Labels: labelsListFlag, Datapoint: dpFlag}}
BuildTSList ==
    /\ pc = "parse"
    /\ args = <<>>
    /\ tsList' = <<[Labels |-> labelsListFlag, Datapoint |-> dpFlag]>>
    /\ pc' = "gather"
    /\ UNCHANGED <<variant, metricFamilies, tss, flat, labelsListFlag, headerListFlag,
                   dpFlag, lastCall, written, writeResult, stdout, exitCode, args>>

\* mf, done, err := prometheus.ToTransactionalGatherer(reg).Gather(), err == nil
Gather ==
    /\ pc = "gather"
    /\ \E obs \in Observations : metricFamilies' = Gathered(variant, obs)
    /\ pc' = "convert"
    /\ UNCHANGED <<variant, tss, flat, labelsListFlag, headerListFlag, dpFlag, lastCall,
                   tsList, written, writeResult, stdout, exitCode, args>>

\* ... err != nil: log.Fatal
GatherFails ==
    /\ pc = "gather"
    /\ pc' = "exited"
    /\ exitCode' = 1
    /\ UNCHANGED <<variant, metricFamilies, tss, flat, labelsListFlag, headerListFlag,
                   dpFlag, lastCall, tsList, written, writeResult, stdout, args>>

\* tss := MetricFamiliesToTimeSeries(mf), then the loop that logs tss
ConvertGathered ==
    /\ pc = "convert"
    /\ tss' = MetricFamiliesToTimeSeries(variant, metricFamilies)
    /\ pc' = "client"
    /\ UNCHANGED <<variant, metricFamilies, flat, labelsListFlag, headerListFlag, dpFlag,
                   lastCall, tsList, written, writeResult, stdout, exitCode, args>>

\* client, err := promremote.NewClient(cfg), err == nil
NewClient ==
    /\ pc = "client"
    /\ pc' = "write"
    /\ UNCHANGED <<variant, metricFamilies, tss, flat, labelsListFlag, headerListFlag,
                   dpFlag, lastCall, tsList, written, writeResult, stdout, exitCode, args>>

\* ... err != nil: log.Fatal
NewClientFails ==
    /\ pc = "client"
    /\ pc' = "exited"
    /\ exitCode' = 1
    /\ UNCHANGED <<variant, metricFamilies, tss, flat, labelsListFlag, headerListFlag,
                   dpFlag, lastCall, tsList, written, writeResult, stdout, args>>

\* result, writeErr := client.WriteTimeSeries(context.Background(), tsList, ...)
WriteTimeSeries ==
    /\ pc = "write"
    /\ written' = Append(written, tsList)
    /\ \E r \in WriteResults : writeResult' = r
    /\ pc' = "wrote"
    /\ UNCHANGED <<variant, metricFamilies, tss, flat, labelsListFlag, headerListFlag,
                   dpFlag, lastCall, tsList, stdout, exitCode, args>>

EncodeFailureSkipped ==
    /\ pc = "wrote"
    /\ writeResult.err
    /\ pc' = "fatal"
    /\ UNCHANGED <<variant, metricFamilies, tss, flat, labelsListFlag, headerListFlag,
                   dpFlag, lastCall, tsList, written, writeResult, stdout, exitCode, args>>

\* if err := error(writeErr); err != nil { json.NewEncoder(os.Stdout).Encode(...)
EncodeFailure ==
    /\ pc = "wrote"
    /\ writeResult.err
    /\ stdout' = Append(stdout, [success |-> FALSE, error |-> writeResult.error,
                                 statusCode |-> writeResult.statusCode])
    /\ pc' = "fatal"
    /\ UNCHANGED <<variant, metricFamilies, tss, flat, labelsListFlag, headerListFlag,
                   dpFlag, lastCall, tsList, written, writeResult, exitCode, args>>

\* log.Fatal("write error", err)
FatalWriteError ==
    /\ pc = "fatal"
    /\ pc' = "exited"
    /\ exitCode' = 1
    /\ UNCHANGED <<variant, metricFamilies, tss, flat, labelsListFlag, headerListFlag,
                   dpFlag, lastCall, tsList, written, writeResult, stdout, args>>

\* json.NewEncoder(os.Stdout).Encode(struct{Success, StatusCode}{true, ...})
EncodeSuccess ==
    /\ pc = "wrote"
    /\ ~writeResult.err
    /\ stdout' = Append(stdout, [success |-> TRUE, statusCode |-> writeResult.statusCode])
    /\ pc' = "return"
    /\ UNCHANGED <<variant, metricFamilies, tss, flat, labelsListFlag, headerListFlag,
                   dpFlag, lastCall, tsList, written, writeResult, exitCode, args>>

\* log.Println("write success"); main returns
Return ==
    /\ pc = "return"
    /\ pc' = "exited"
    /\ exitCode' = 0
    /\ UNCHANGED <<variant, metricFamilies, tss, flat, labelsListFlag, headerListFlag,
                   dpFlag, lastCall, tsList, written, writeResult, stdout, args>>

NextMain ==
    \/ FlagParse
    \/ BuildTSList
    \/ Gather
    \/ GatherFails
    \/ ConvertGathered
    \/ NewClient
    \/ NewClientFails
    \/ WriteTimeSeries
    \/ EncodeFailure
    \/ FatalWriteError
    \/ EncodeSuccess
    \/ Return

SpecMain == InitMain /\ [][NextMain]_vars

(***************************************************************************)
(* Vocabulary of the properties of the conversion.                         *)
(***************************************************************************)
Converted == pc \in {"converted", "flattened"}

\* the family at index i is the last of its name: its series is the one kept
LastOfName(i) ==
    \A k \in DOMAIN metricFamilies :
        k > i => metricFamilies[k].Name # metricFamilies[i].Name

IsCounter(m) == m.Counter # Nil /\ m.Gauge = Nil /\ m.Histogram = Nil /\ m.Summary = Nil
IsGauge(m) == m.Counter = Nil /\ m.Gauge # Nil /\ m.Histogram = Nil /\ m.Summary = Nil
IsHistogram(m) == m.Counter = Nil /\ m.Gauge = Nil /\ m.Histogram # Nil /\ m.Summary = Nil
IsSummary(m) == m.Counter = Nil /\ m.Gauge = Nil /\ m.Histogram = Nil /\ m.Summary # Nil
IsUnrecognized(m) == m.Counter = Nil /\ m.Gauge = Nil /\ m.Histogram = Nil /\ m.Summary = Nil

\* how many points each metric of the family contributes
SeriesLens(fam) ==
    [k \in DOMAIN fam.Metric |-> Len(MetricSeries(variant, fam.Name, fam.Metric[k]))]

\* how many points the metrics before / after index j of the family contribute
PointsBefore(lens, j) == SumSeq(SubSeq(lens, 1, j - 1))
PointsAfter(lens, j) == SumSeq(SubSeq(lens, j + 1, Len(lens)))

\* the family's sequence holds exactly n points for its metric j: the n points
\* that follow those of the metrics before it
HoldsPoints(fam, lens, j, n) ==
    /\ fam.Name \in DOMAIN tss
    /\ Len(tss[fam.Name]) = PointsBefore(lens, j) + n + PointsAfter(lens, j)

PointsOf(fam, lens, j, n) ==
    LET before == PointsBefore(lens, j)
    IN  SubSeq(tss[fam.Name], before + 1, before + n)

\* what Go prints for the float64 values used as bucket bounds and quantiles
GoFormatted(f) ==
    CASE f = F500 -> "500"
      [] f = FMillion -> "1e+06"
      [] f = FTiny -> "2.5e-05"
      [] f = PosInf -> "+Inf"
      [] f = FHalf -> "0.5"
      [] f = F99 -> "0.99"

RECURSIVE Pow10(_)
Pow10(n) == IF n = 0 THEN 1 ELSE 10 * Pow10(n - 1)

RECURSIVE DigitsValue(_)
DigitsValue(d) ==
    IF d = <<>> THEN 0 ELSE 10 * DigitsValue(SubSeq(d, 1, Len(d) - 1)) + d[Len(d)]

\* the float64 f is the integer n
FloatIsNat(f, n) ==
    /\ f.kind = "fin"
    /\ ~f.neg
    /\ f.dp >= Len(f.d)
    /\ DigitsValue(f.d) * Pow10(f.dp - Len(f.d)) = n

Named(labels, name) == Append(labels, LabelPair(NameLabel, name))

\* C1: a Histogram metric (sum S, count C, buckets B) of family F appends exactly
\* 2 + len(B) points: F_sum with value S, F_count with value C, then one F_bucket
\* point per bucket, in bucket order, labeled le = the formatted upper bound, with
\* the bucket's cumulative count as value.
C1_HistogramDecomposition ==
    (Converted /\ variant = "decompose") =>
        \A i \in DOMAIN metricFamilies : LastOfName(i) =>
            LET fam == metricFamilies[i]
                lens == SeriesLens(fam) IN
            \A j \in DOMAIN fam.Metric : IsHistogram(fam.Metric[j]) =>
                LET m == fam.Metric[j]
                    h == m.Histogram
                    n == 2 + Len(h.Bucket)
                    pts == PointsOf(fam, lens, j, n)
                IN  /\ HoldsPoints(fam, lens, j, n)
                    /\ pts[1].Labels = Named(m.Label, fam.Name \o "_sum")
                    /\ pts[1].Datapoint.Value = h.SampleSum
                    /\ pts[2].Labels = Named(m.Label, fam.Name \o "_count")
                    /\ FloatIsNat(pts[2].Datapoint.Value, h.SampleCount)
                    /\ \A k \in DOMAIN h.Bucket :
                        /\ pts[2 + k].Labels =
                              Named(Append(m.Label,
                                           LabelPair("le", GoFormatted(h.Bucket[k].UpperBound))),
                                    fam.Name \o "_bucket")
                        /\ FloatIsNat(pts[2 + k].Datapoint.Value,
                                      h.Bucket[k].CumulativeCount)

\* a histogram with two different buckets, the last one +Inf, has been converted
C1_Witness ==
    /\ pc = "converted"
    /\ variant = "decompose"
    /\ \E i \in DOMAIN metricFamilies : \E j \in DOMAIN metricFamilies[i].Metric :
        LET m == metricFamilies[i].Metric[j] IN
        /\ IsHistogram(m)
        /\ m.Label # <<>>
        /\ Len(m.Histogram.Bucket) = 2
        /\ m.Histogram.Bucket[1].UpperBound = FMillion
        /\ m.Histogram.Bucket[2].UpperBound = PosInf
        /\ Len(tss[metricFamilies[i].Name]) = 4
        /\ tss[metricFamilies[i].Name][4].Labels[Len(m.Label) + 1] = LabelPair("le", "+Inf")

\* C2: a Summary metric (sum S, count C, n quantiles) of family F appends exactly
\* 2 + n points: F_sum with value S, F_count with value C, then one point per
\* quantile, in order, labeled quantile = the formatted quantile, named F (no
\* suffix), with the quantile's value.
C2_SummaryDecomposition ==
    (Converted /\ variant = "decompose") =>
        \A i \in DOMAIN metricFamilies : LastOfName(i) =>
            LET fam == metricFamilies[i]
                lens == SeriesLens(fam) IN
            \A j \in DOMAIN fam.Metric : IsSummary(fam.Metric[j]) =>
                LET m == fam.Metric[j]
                    s == m.Summary
                    n == 2 + Len(s.Quantile)
                    pts == PointsOf(fam, lens, j, n)
                IN  /\ HoldsPoints(fam, lens, j, n)
                    /\ pts[1].Labels = Named(m.Label, fam.Name \o "_sum")
                    /\ pts[1].Datapoint.Value = s.SampleSum
                    /\ pts[2].Labels = Named(m.Label, fam.Name \o "_count")
                    /\ FloatIsNat(pts[2].Datapoint.Value, s.SampleCount)
                    /\ \A k \in DOMAIN s.Quantile :
                        /\ pts[2 + k].Labels =
                              Named(Append(m.Label,
                                           LabelPair("quantile",
                                                     GoFormatted(s.Quantile[k].Quantile))),
                                    fam.Name)
                        /\ pts[2 + k].Datapoint.Value = s.Quantile[k].Value

\* a summary with two different quantiles has been converted
C2_Witness ==
    /\ pc = "converted"
    /\ variant = "decompose"
    /\ \E i \in DOMAIN metricFamilies : \E j \in DOMAIN metricFamilies[i].Metric :
        LET m == metricFamilies[i].Metric[j] IN
        /\ IsSummary(m)
        /\ m.Label # <<>>
        /\ Len(m.Summary.Quantile) = 2
        /\ m.Summary.Quantile[1] # m.Summary.Quantile[2]
        /\ Len(tss[metricFamilies[i].Name]) = 4
        /\ tss[metricFamilies[i].Name][3].Labels[Len(m.Label) + 1] = LabelPair("quantile", "0.99")

\* C3: a Counter or Gauge metric with labels L and value v of family F yields
\* exactly one point, labeled L (in source order) followed by __name__ = F, with
\* value v unchanged (in both variants).
C3_CounterGaugeOnePoint ==
    Converted =>
        \A i \in DOMAIN metricFamilies : LastOfName(i) =>
            LET fam == metricFamilies[i]
                lens == SeriesLens(fam) IN
            \A j \in DOMAIN fam.Metric : (IsCounter(fam.Metric[j]) \/ IsGauge(fam.Metric[j])) =>
                LET m == fam.Metric[j]
                    v == IF IsCounter(m) THEN m.Counter.Value ELSE m.Gauge.Value
                    pts == PointsOf(fam, lens, j, 1)
                IN  /\ HoldsPoints(fam, lens, j, 1)
                    /\ pts[1].Labels = Named(m.Label, fam.Name)
                    /\ pts[1].Datapoint.Value = v

\* a gauge with two labels has been converted to its one point
C3_Witness ==
    /\ pc = "converted"
    /\ Len(metricFamilies) = 1
    /\ Len(metricFamilies[1].Metric) = 1
    /\ IsGauge(metricFamilies[1].Metric[1])
    /\ Len(metricFamilies[1].Metric[1].Label) = 2
    /\ Len(tss[metricFamilies[1].Name]) = 1
    /\ Len(tss[metricFamilies[1].Name][1].Labels) = 3

DistinctNames(labels) ==
    \A a, b \in DOMAIN labels : a # b => labels[a].Name # labels[b].Name

NameLabelCount(labels) == Cardinality({a \in DOMAIN labels : labels[a].Name = NameLabel})

\* every source metric carries each label name at most once
SourceLabelsDistinct ==
    \A i \in DOMAIN metricFamilies : \A j \in DOMAIN metricFamilies[i].Metric :
        DistinctNames(metricFamilies[i].Metric[j].Label)

\* C4: every point produced has exactly one label named __name__ and no two
\* labels of the same name, also when the source metric already carries a label
\* named __name__, le or quantile.
C4_UniqueLabelNames ==
    (Converted /\ SourceLabelsDistinct) =>
        \A name \in DOMAIN tss : \A k \in DOMAIN tss[name] :
            /\ NameLabelCount(tss[name][k].Labels) = 1
            /\ DistinctNames(tss[name][k].Labels)

\* the same, for the snapshots whose metrics carry none of the injected names
C4_UniqueLabelNamesUnlessCollision ==
    (/\ Converted
     /\ SourceLabelsDistinct
     /\ \A i \in DOMAIN metricFamilies : \A j \in DOMAIN metricFamilies[i].Metric :
            \A a \in DOMAIN metricFamilies[i].Metric[j].Label :
                metricFamilies[i].Metric[j].Label[a].Name \notin {NameLabel, "le", "quantile"})
    => \A name \in DOMAIN tss : \A k \in DOMAIN tss[name] :
            /\ NameLabelCount(tss[name][k].Labels) = 1
            /\ DistinctNames(tss[name][k].Labels)

\* the series the other metrics of the family contribute when converted alone,
\* in metric order
OthersAlone(fam, j) ==
    Flatten([k \in 1..Len(fam.Metric) |->
        IF k = j THEN <<>>
        ELSE MetricFamiliesToTimeSeries(
                 variant, <<MetricFamily(fam.Name, <<fam.Metric[k]>>)>>)[fam.Name]])

\* C5: in both variants a metric whose payload is none of Counter, Gauge,
\* Histogram, Summary contributes no points, and the other metrics of its family
\* contribute exactly the points they contribute alone, in the same order.
C5_UnrecognizedSkipped ==
    Converted =>
        \A i \in DOMAIN metricFamilies : LastOfName(i) =>
            LET fam == metricFamilies[i] IN
            \A j \in DOMAIN fam.Metric : IsUnrecognized(fam.Metric[j]) =>
                /\ fam.Name \in DOMAIN tss
                /\ tss[fam.Name] = OthersAlone(fam, j)

\* the same, of the decomposing variant alone
C5_UnrecognizedSkippedDecompose ==
    variant = "decompose" => C5_UnrecognizedSkipped

\* an occurrence count of x in the sequence s
Count(s, x) == Cardinality({i \in DOMAIN s : s[i] = x})

RECURSIVE SumOver(_, _)
SumOver(S, f) ==
    IF S = {} THEN 0
    ELSE LET x == CHOOSE y \in S : TRUE IN f[x] + SumOver(S \ {x}, f)

\* s is obtained from t by deleting elements
RECURSIVE IsSubsequence(_, _)
IsSubsequence(s, t) ==
    IF s = <<>> THEN TRUE
    ELSE IF t = <<>> THEN FALSE
    ELSE IF Head(s) = Head(t) THEN IsSubsequence(Tail(s), Tail(t))
    ELSE IsSubsequence(s, Tail(t))

AllPoints == UNION {{tss[n][k] : k \in DOMAIN tss[n]} : n \in DOMAIN tss}

\* C7: FlattenTimeSeriesMap(M) is as long as M's sequences together, holds every
\* point of every sequence exactly once, and keeps the points of each family in
\* their relative order.
C7_FlattenPreserves ==
    pc = "flattened" =>
        /\ Len(flat) = SumOver(DOMAIN tss, [n \in DOMAIN tss |-> Len(tss[n])])
        /\ \A x \in AllPoints \cup {flat[k] : k \in DOMAIN flat} :
                Count(flat, x) = SumOver(DOMAIN tss, [n \in DOMAIN tss |-> Count(tss[n], x)])
        /\ \A n \in DOMAIN tss : IsSubsequence(tss[n], flat)

\* a map of two families, one of them with several points, has been flattened
\* with the family "g" visited first
C7_Witness ==
    /\ pc = "flattened"
    /\ DOMAIN tss = {"f", "g"}
    /\ Len(tss["f"]) >= 1
    /\ Len(tss["g"]) >= 2
    /\ flat = tss["g"] \o tss["f"]

\* the instant exactly ms milliseconds after the Unix epoch
InstantOfMillis(ms) ==
    MulTrunc(SignExtend(ms, InstantBytes), Millisecond)

\* C10: every point derived from a metric carries the same timestamp, the
\* instant exactly timestampMillis milliseconds after the Unix epoch, for every
\* int64 value of timestampMillis.
C10_TimestampExact ==
    Converted =>
        \A i \in DOMAIN metricFamilies : LastOfName(i) =>
            LET fam == metricFamilies[i]
                lens == SeriesLens(fam) IN
            \A j \in DOMAIN fam.Metric :
                LET n == lens[j]
                    pts == PointsOf(fam, lens, j, n)
                IN  \A k \in DOMAIN pts :
                        pts[k].Datapoint.Timestamp = InstantOfMillis(fam.Metric[j].TimestampMs)

\* the products ms * 1000000 that fit an int64
FitsNanoseconds(ms) ==
    SignExtend(Mul64(ms, Millisecond), InstantBytes) = InstantOfMillis(ms)

\* the same, of the timestamps whose nanosecond count fits an int64
C10_TimestampExactInRange ==
    Converted =>
        \A i \in DOMAIN metricFamilies : LastOfName(i) =>
            LET fam == metricFamilies[i]
                lens == SeriesLens(fam) IN
            \A j \in DOMAIN fam.Metric : FitsNanoseconds(fam.Metric[j].TimestampMs) =>
                LET n == lens[j]
                    pts == PointsOf(fam, lens, j, n)
                IN  \A k \in DOMAIN pts :
                        pts[k].Datapoint.Timestamp = InstantOfMillis(fam.Metric[j].TimestampMs)

(***************************************************************************)
(* Vocabulary of the properties of the flag parsers.                       *)
(***************************************************************************)
CountOf(s, c) == Cardinality({i \in DOMAIN s : s[i] = c})

Before(s, c) == SubSeq(s, 1, (CHOOSE i \in DOMAIN s : s[i] = c) - 1)
After(s, c) == SubSeq(s, (CHOOSE i \in DOMAIN s : s[i] = c) + 1, Len(s))

Unsigned(s) == IF s # <<>> /\ s[1] \in {"+", "-"} THEN SubSeq(s, 2, Len(s)) ELSE s

IsNowWord(s) ==
    Len(s) = 3 /\ s[1] \in {"n", "N"} /\ s[2] \in {"o", "O"} /\ s[3] \in {"w", "W"}

IsIntegerText(s) ==
    Unsigned(s) # <<>> /\ \A i \in DOMAIN Unsigned(s) : Unsigned(s)[i] \in Digits

IsFloatText(s) ==
    /\ \A i \in DOMAIN Unsigned(s) : Unsigned(s)[i] \in Digits \cup {"."}
    /\ CountOf(Unsigned(s), ".") <= 1
    /\ \E i \in DOMAIN Unsigned(s) : Unsigned(s)[i] \in Digits

\* the integer an integer text denotes, sign apart
Magnitude(s) ==
    LET u == Unsigned(s)
        ds == SelectSeq(u, LAMBDA c : c \in Digits)
    IN  SumSeq([i \in DOMAIN ds |-> DigitOf(ds[i]) * Pow10(Len(ds) - i)])

\* the float64 f is the number the float text s denotes
FloatDenotes(f, s) ==
    LET u == Unsigned(s)
        k == IF CountOf(u, ".") = 1 THEN Len(After(u, ".")) ELSE 0
    IN  /\ f.kind = "fin"
        /\ f.neg = (s[1] = "-")
        /\ f.dp - Len(f.d) + k >= 0
        /\ DigitsValue(f.d) * Pow10(f.dp - Len(f.d) + k) = Magnitude(s)

\* the instant n seconds after the Unix epoch
InstantOfSeconds(n) ==
    MulTrunc(MulTrunc(IntBytes(n, InstantBytes), Second \div Millisecond), Millisecond)

DpWellFormed(s) ==
    /\ CountOf(s, ",") = 1
    /\ IsNowWord(Before(s, ",")) \/ IsIntegerText(Before(s, ","))
    /\ IsFloatText(After(s, ","))

\* C9: each flag parser fails exactly when its argument is malformed (label: not
\* exactly one colon; header: no colon; datapoint: not exactly one comma, or a
\* first part that is neither "now" in any letter case nor an integer, or a
\* second part that is no float) and then leaves its receiver unchanged; on
\* success labelList.Set and headerList.Set append exactly one entry after the
\* existing ones and dp.Set overwrites both timestamp and value.
C9_FlagParsers ==
    /\ lastCall.fn = "labelList.Set" =>
        /\ lastCall.err <=> CountOf(lastCall.arg, ":") # 1
        /\ lastCall.err => labelsListFlag = lastCall.before
        /\ ~lastCall.err =>
            /\ Len(labelsListFlag) = Len(lastCall.before) + 1
            /\ SubSeq(labelsListFlag, 1, Len(lastCall.before)) = lastCall.before
    /\ lastCall.fn = "headerList.Set" =>
        /\ lastCall.err <=> CountOf(lastCall.arg, ":") = 0
        /\ lastCall.err => headerListFlag = lastCall.before
        /\ ~lastCall.err =>
            /\ Len(headerListFlag) = Len(lastCall.before) + 1
            /\ SubSeq(headerListFlag, 1, Len(lastCall.before)) = lastCall.before
    /\ lastCall.fn = "dp.Set" =>
        /\ lastCall.err <=> ~DpWellFormed(lastCall.arg)
        /\ lastCall.err => dpFlag = lastCall.before
        /\ ~lastCall.err =>
            /\ dpFlag.Timestamp =
                  IF IsNowWord(Before(lastCall.arg, ",")) THEN lastCall.now
                  ELSE LET t == Before(lastCall.arg, ",")
                       IN  InstantOfSeconds(IF t[1] = "-" THEN 0 - Magnitude(t)
                                            ELSE Magnitude(t))
            /\ FloatDenotes(dpFlag.Value, After(lastCall.arg, ","))

\* dp.Set("nOw,1") has overwritten the datapoint an earlier -d flag had set
C9_Witness ==
    /\ lastCall.fn = "dp.Set"
    /\ lastCall.arg = <<"n", "O", "w", ",", "1">>
    /\ ~lastCall.err
    /\ lastCall.before = EarlierDatapoint
    /\ dpFlag.Timestamp \in Clock
    /\ dpFlag.Value = Fin(FALSE, <<1>>, 1)

(***************************************************************************)
(* Properties of main.                                                     *)
(***************************************************************************)
\* C6: the batch passed to WriteTimeSeries is FlattenTimeSeriesMap applied to the
\* result of MetricFamiliesToTimeSeries on the gathered snapshot, so that every
\* converted point is in the written batch.
C6_WritesFlattenedConversion ==
    \A k \in DOMAIN written :
        /\ tss = MetricFamiliesToTimeSeries(variant, metricFamilies)
        /\ \E order \in KeyOrders(tss) : written[k] = FlattenTimeSeriesMap(tss, order)

\* what main does write: the one series built from the -t and -d flags, after
\* the conversion, whose result is logged and never flattened
C6_WritesFlagDatapoint ==
    \A k \in DOMAIN written :
        /\ tss = MetricFamiliesToTimeSeries(variant, metricFamilies)
        /\ flat = <<>>
        /\ written[k] = <<[Labels |-> labelsListFlag, Datapoint |-> dpFlag]>>

\* C8 as stated: every run ends with exactly one JSON object on standard output.
C8_EveryRunOneJsonObject ==
    pc = "exited" => Len(stdout) = 1

\* C8, amended: the write is attempted at most once; a run that reaches it writes
\* exactly one JSON object, {success: true, statusCode} and status 0 when the
\* write succeeds, {success: false, error, statusCode} and then a non-zero
\* status when it fails; a run that ends before the write writes none.
C8_OneJsonObjectPerWrite ==
    /\ Len(written) <= 1
    /\ Len(stdout) <= 1
    /\ stdout # <<>> => written # <<>>
    /\ pc = "fatal" => Len(stdout) = 1
    /\ (pc = "exited" /\ written # <<>>) =>
        /\ Len(stdout) = 1
        /\ IF writeResult.err
           THEN /\ stdout[1] = [success |-> FALSE, error |-> writeResult.error,
                                statusCode |-> writeResult.statusCode]
                /\ exitCode # 0
           ELSE /\ stdout[1] = [success |-> TRUE, statusCode |-> writeResult.statusCode]
                /\ exitCode = 0

\* a run whose write failed with status 400 has printed the failure and exited 1
C8_Witness ==
    /\ pc = "exited"
    /\ Len(written) = 1
    /\ writeResult.err
    /\ writeResult.statusCode = 400
    /\ stdout = <<[success |-> FALSE, error |-> writeResult.error, statusCode |-> 400]>>
    /\ exitCode = 1

\* the value the single-point variant reports for a metric of one of the four
\* kinds: the counter or gauge value, the sampleSum of a histogram or summary
SingleValue(m) ==
    IF IsCounter(m) THEN m.Counter.Value
    ELSE IF IsGauge(m) THEN m.Gauge.Value
    ELSE IF IsHistogram(m) THEN m.Histogram.SampleSum
    ELSE m.Summary.SampleSum

\* C11: in the single-point variant the sequence of a family has exactly as
\* many points as the family has metrics, and the point of a Counter, Gauge,
\* Histogram or Summary metric carries the metric's labels followed by
\* __name__ = the family name (no suffix, no le or quantile label) and the
\* counter or gauge value, or the sampleSum of the histogram or summary.
C11_SinglePointPerMetric ==
    (Converted /\ variant = "single") =>
        \A i \in DOMAIN metricFamilies : LastOfName(i) =>
            LET fam == metricFamilies[i] IN
            /\ fam.Name \in DOMAIN tss
            /\ Len(tss[fam.Name]) = Len(fam.Metric)
            /\ \A j \in DOMAIN fam.Metric :
                    LET m == fam.Metric[j] IN
                    (IsCounter(m) \/ IsGauge(m) \/ IsHistogram(m) \/ IsSummary(m)) =>
                        /\ tss[fam.Name][j].Labels = Named(m.Label, fam.Name)
                        /\ tss[fam.Name][j].Datapoint.Value = SingleValue(m)

\* the single-point variant has converted a family of a counter and a
\* histogram with a bucket into two points, the second valued the sampleSum
C11_Witness ==
    /\ pc = "converted"
    /\ variant = "single"
    /\ Len(metricFamilies) = 1
    /\ Len(metricFamilies[1].Metric) = 2
    /\ IsCounter(metricFamilies[1].Metric[1])
    /\ IsHistogram(metricFamilies[1].Metric[2])
    /\ Len(metricFamilies[1].Metric[2].Histogram.Bucket) = 1
    /\ Len(tss[metricFamilies[1].Name]) = 2
    /\ tss[metricFamilies[1].Name][2].Datapoint.Value = F6000

\* the family names occurring in the snapshot
SnapshotNames == {metricFamilies[i].Name : i \in DOMAIN metricFamilies}

\* C12: the keys of the returned map are exactly the family names occurring in
\* the snapshot; the sequence under a name is the expansion of the last family
\* of that name, its metrics in order and each metric's points in expansion
\* order, so that earlier families of the name contribute nothing; a family
\* with no metrics maps to the empty sequence.
C12_LastFamilyOfNameKept ==
    Converted =>
        /\ DOMAIN tss = SnapshotNames
        /\ \A i \in DOMAIN metricFamilies : LastOfName(i) =>
                LET fam == metricFamilies[i]
                    lens == SeriesLens(fam) IN
                /\ Len(tss[fam.Name]) = SumSeq(lens)
                /\ \A j \in DOMAIN fam.Metric :
                        PointsOf(fam, lens, j, lens[j])
                            = MetricSeries(variant, fam.Name, fam.Metric[j])
                /\ fam.Metric = <<>> => tss[fam.Name] = <<>>

\* two families share a name: the first holds a histogram, the second a
\* counter then a histogram, and the map holds the second's four points only
C12_Witness ==
    /\ pc = "converted"
    /\ variant = "decompose"
    /\ Len(metricFamilies) = 2
    /\ metricFamilies[1].Name = metricFamilies[2].Name
    /\ Len(metricFamilies[1].Metric) = 1
    /\ IsHistogram(metricFamilies[1].Metric[1])
    /\ Len(metricFamilies[2].Metric) = 2
    /\ IsCounter(metricFamilies[2].Metric[1])
    /\ IsHistogram(metricFamilies[2].Metric[2])
    /\ DOMAIN tss = {metricFamilies[2].Name}
    /\ Len(tss[metricFamilies[2].Name]) = 4

\* a family without metrics follows one of the same name that holds a metric
C12_EmptyFamilyShadows ==
    /\ pc = "converted"
    /\ Len(metricFamilies) = 2
    /\ metricFamilies[1].Name = metricFamilies[2].Name
    /\ metricFamilies[1].Metric # <<>>
    /\ metricFamilies[2].Metric = <<>>
    /\ tss[metricFamilies[2].Name] = <<>>

====
